---- MODULE Spec2Model ----
(***************************************************************************)
(* Buffer pool of arcadia-db: the page cache with per-page locking          *)
(* (src/src/storage/buffer_pool_manager/buffer_pool.rs) together with the   *)
(* operations of the later draft that are still stubs and its page table    *)
(* (src/src/src/buffer_pool_manager/buffer_pool.rs), and the buffer pool    *)
(* manager (src/src/src/buffer_pool_manager/mod.rs), the frame buffer and   *)
(* page table of the first draft (frame_buffer.rs, page_table.rs), and the  *)
(* file layer (src/src/storage/fileio/unix/mod.rs).                         *)
(*                                                                         *)
(* Every thread is a caller of the pool.  A call is executed in the steps   *)
(* at which the code can block or at which other threads can observe it:    *)
(* the map lookup, each lock acquisition, the copy into the frame, and the  *)
(* metadata update with the return.                                         *)
(***************************************************************************)
EXTENDS Integers, Sequences, FiniteSets, TLC

\* ------------------------------------------------------------------ bounds
NumThreads == 2
MaxCalls == 2
PageSize == 2
EntriesCount == 3
MaxByte == 1
\* FrameBuffer::FRAME_BUFFER_PAGES_SIZE is 16 in frame_buffer.rs; the model
\* keeps this many frames of it.
FRAME_BUFFER_PAGES_SIZE == 3
\* Direct I/O transfers whole logical blocks (512 bytes on the usual device);
\* the model's block has this many bytes, and a file has at most MaxFileLen.
BlockSize == 2
MaxFileLen == 4

Threads == 1..NumThreads
Frames == 0..(EntriesCount - 1)
Bytes == 0..MaxByte

\* A BufferPoolKey is (TableId, PageId); one table, one page id per frame.
Keys == {<<"Person", p>> : p \in Frames}
\* The pool as the test of buffer_pool.rs sets it up: every key but the last is
\* resident, key (Person, p) in frame p; the last frame is unused.
InitialResident == {k \in Keys : k[2] < EntriesCount - 1}

NoThread == 0

VARIABLES
    buffer_map,     \* BufferPoolImpl.buffer_map: resident key -> buffer id
    map_refs,       \* number of live DashMap Ref guards (shard read locks)
    item_lock,      \* per page-table item: the RwLock<PageTableItem>
    frame_lock,     \* per occupied item: frame_lock: RwLock<()>
    metadata_lock,  \* per occupied item: owner of metadata: Mutex<..>, or NoThread
    metadata,       \* per occupied item: PageTableItemMetadata
    frame_buffer,   \* FrameBuffer.buffer: byte offset -> byte
    pc,             \* per thread: where it is in its current call
    op,             \* per thread: the call (name, id, and the arguments still needed)
    buffer_id,      \* per thread: the local `buffer_id`
    held,           \* per thread: the locks its current call has taken, in order
    guards,         \* per thread: the PageReadLock values it owns
    result,         \* per thread: how its last call ended
    calls,          \* per thread: number of calls made
    nested,         \* some call was issued by a thread that owned a PageReadLock
    disk,           \* the pages as the StorageHandler holds them: key -> bytes
    pools,          \* BufferPoolManagerImpl.pools: table id -> pool
    pools_lock,     \* the std RwLock around `pools`
    poisoned,       \* that RwLock is poisoned
    handle,         \* per thread: the Arc<dyn BufferPool> it holds, as a sequence
    created,        \* the table ids whose create_buffer_pool has returned
    next_pool,      \* number of BufferPoolImpl values built so far
    table,          \* PageTable.table of the later draft: its keys
    ref_table,      \* PageTable.ref_table: key -> reference count
    ref_table_lock, \* the parking_lot RwLock around `ref_table`
    read_locks,     \* per thread: the PageTableItemReadLock values it owns (keys)
    occupied,       \* frame_buffer.rs FrameBuffer.occupied: frame index -> bool
    buffer,         \* frame_buffer.rs FrameBuffer.buffer: byte offset -> byte
    item_table,     \* page_table.rs PageTable.table: page id -> PageTableItem
    frame_result,   \* what the last call on that frame buffer or table returned
    files,          \* the file system: path -> bytes of the file at that path
    open_files,     \* the File values the caller owns: slot -> <<>> or <<File>>
    io              \* the io::Result of the last fileio call

\* The buffer pool manager, the page table of the later draft, and the storage.
manager == <<pools, pools_lock, poisoned, handle, created, next_pool>>
page_table == <<table, ref_table, ref_table_lock, read_locks>>
\* The frame buffer and page table of the first draft, and the file layer.
frame_store == <<occupied, buffer, item_table, frame_result>>
file_io == <<files, open_files, io>>

\* What the calls on a pool leave alone, and what the calls on the manager do.
outside_pool == <<disk, manager, page_table, frame_store, file_io>>
outside_manager == <<buffer_map, map_refs, item_lock, frame_lock, metadata_lock,
                     metadata, frame_buffer, buffer_id, held, guards, disk,
                     page_table, frame_store, file_io>>

vars == <<buffer_map, map_refs, item_lock, frame_lock, metadata_lock, metadata,
          frame_buffer, pc, op, buffer_id, held, guards, result, calls, nested,
          disk, manager, page_table, frame_store, file_io>>

pool == <<buffer_map, map_refs, item_lock, frame_lock, metadata_lock, metadata,
          frame_buffer>>

\* ------------------------------------------------------- pure functions

\* FrameBuffer::get_frame_range: the half-open byte range [lo, hi) of the buffer.
get_frame_range_NextFrame(index, offset) ==
    [lo |-> PageSize * (index + 1) + offset, hi |-> PageSize * (index + 2)]
get_frame_range(index, offset) ==
    [lo |-> PageSize * index + offset, hi |-> PageSize * (index + 1)]

RangeLen(r) == IF r.hi >= r.lo THEN r.hi - r.lo ELSE 0

\* The bytes of a range, as a sequence (Vec::get(range)).
Slice(buf, r) == [j \in 1..RangeLen(r) |-> buf[r.lo + j - 1]]

\* slice.copy_from_slice(data) on the bytes of range r (lengths are equal).
CopyFromSlice_OffByOne(buf, r, data) ==
    [b \in DOMAIN buf |->
        IF b > r.lo /\ b < r.hi THEN data[b - r.lo + 1] ELSE buf[b]]
CopyFromSlice(buf, r, data) ==
    [b \in DOMAIN buf |->
        IF b >= r.lo /\ b < r.hi THEN data[b - r.lo + 1] ELSE buf[b]]

\* PageTableItemMetadataFlags: a u8 whose bit 0 is IsDirty.
IsDirtyMask == 1
FlagsAllOnes == 255
BitOrMask(f, m) ==
    \* f | m for a u8 f and a mask m that is either 0b00000001 or its complement
    IF m = IsDirtyMask THEN (IF f % 2 = 1 THEN f ELSE f + 1)
    ELSE (FlagsAllOnes - IsDirtyMask) + (f % 2)
get_is_dirty(f) == (f % 2) # 0
set_is_dirty(f, value) ==
    IF value THEN BitOrMask(f, IsDirtyMask)
    ELSE BitOrMask(f, FlagsAllOnes - IsDirtyMask)

\* FrameBuffer::new fills the buffer with 0x00.
DefaultByte == 0

\* vec![v; len]
Fill(len, v) == [j \in 1..len |-> v]

\* ----------------------------------------------------- parking_lot RwLock
\* A lock is [readers, writer]: writer is the thread that has set WRITER_BIT
\* (it holds the lock exclusively once the readers have drained).

Unlocked == [readers |-> 0, writer |-> NoThread]

\* lock_shared() parks while WRITER_BIT is set, held or pending: readers do not
\* overtake a waiting writer.
CanLockShared_Exclusive(l) == l.writer = NoThread /\ l.readers = 0
CanLockShared(l) == l.writer = NoThread
LockShared(l) == [l EXCEPT !.readers = @ + 1]
UnlockShared_Leak(l) == l
UnlockShared(l) == [l EXCEPT !.readers = @ - 1]
\* lock_exclusive(): set WRITER_BIT when it is clear, then wait for the readers.
CanSetWriterBit(l) == l.writer = NoThread
ReadersDrained_NoWait(l) == TRUE
ReadersDrained(l) == l.readers = 0
UnlockExclusive(l) == [l EXCEPT !.writer = NoThread]

\* The page-table slot whose locks protect frame `id`: page_table.get(id).
LockSlot_Shared(id) == 0
LockSlot(id) == id

\* ------------------------------------------------------------------ Init

NoOp == [name |-> "none", id |-> <<"", 0>>, offset |-> 0, data |-> <<>>]
Done(o) == [name |-> o.name, id |-> o.id, offset |-> 0, data |-> <<>>]

OccupiedFrames == {k[2] : k \in InitialResident}

\* The pool with the keys of `mapped` in buffer_map, key (Person, p) on item p;
\* the items of OccupiedFrames are Occupied, any other mapped item is Free.
\* Every metadata starts with the flags byte `flags`.
InitWith(mapped, flags) ==
    /\ buffer_map = [k \in mapped |-> k[2]]
    /\ map_refs = 0
    /\ item_lock = [i \in {k[2] : k \in mapped} |-> Unlocked]
    /\ frame_lock = [i \in OccupiedFrames |-> Unlocked]
    /\ metadata_lock = [i \in OccupiedFrames |-> NoThread]
    /\ metadata = [i \in OccupiedFrames |->
                     [access_count |-> 0, pin_count |-> 0, flags |-> flags]]
    /\ frame_buffer = [b \in 0..(EntriesCount * PageSize - 1) |-> DefaultByte]
    /\ pc = [t \in Threads |-> "idle"]
    /\ op = [t \in Threads |-> NoOp]
    /\ buffer_id = [t \in Threads |-> 0]
    /\ held = [t \in Threads |-> <<>>]
    /\ guards = [t \in Threads |-> <<>>]
    /\ result = [t \in Threads |-> "none"]
    /\ calls = [t \in Threads |-> 0]
    /\ nested = FALSE
    /\ disk = [k \in Keys |-> Fill(PageSize, DefaultByte)]
    \* BufferPoolManagerImpl::new
    /\ pools = <<>>
    /\ pools_lock = Unlocked
    /\ poisoned = FALSE
    /\ handle = [t \in Threads |-> <<>>]
    /\ created = {}
    /\ next_pool = 0
    \* PageTable::new, with the entries of the resident keys in `table`
    /\ table = InitialResident
    /\ ref_table = <<>>
    /\ ref_table_lock = [writer |-> NoThread, upgradable |-> NoThread]
    /\ read_locks = [t \in Threads |-> <<>>]
    \* FrameBuffer::new(page_size) and PageTable::default() of the first draft
    /\ occupied = [i \in 0..(FRAME_BUFFER_PAGES_SIZE - 1) |-> FALSE]
    /\ buffer = [b \in 0..(PageSize * FRAME_BUFFER_PAGES_SIZE - 1) |-> DefaultByte]
    /\ item_table = <<>>
    /\ frame_result = [call |-> "none", found |-> <<>>, data |-> <<>>,
                       panicked |-> FALSE]
    \* no file exists and none is open
    /\ files = <<>>
    /\ open_files = [h \in 1..NumThreads |-> <<>>]
    /\ io = [call |-> "none", kind |-> "Ok", offset |-> 0, data |-> <<>>]

\* PageTableItemMetadata::default(): the flags byte is 0.
InitOf(mapped) == InitWith(mapped, 0)

Init == InitOf(InitialResident)

\* --------------------------------------------------------------- helpers

\* A call begins: the thread is between calls and has calls left.
Begin(t) ==
    /\ pc[t] = "idle"
    /\ calls[t] < MaxCalls
    /\ calls' = [calls EXCEPT ![t] = @ + 1]
    /\ nested' = (nested \/ guards[t] # <<>>)

\* The call panics: the thread unwinds and makes no further call.
Panic(t, o, why) ==
    /\ pc' = [pc EXCEPT ![t] = "panicked"]
    /\ op' = [op EXCEPT ![t] = Done(o)]
    /\ result' = [result EXCEPT ![t] = why]
    /\ held' = [held EXCEPT ![t] = <<>>]

Slot(t) == LockSlot(buffer_id[t])

\* ------------------------------------------------------------- get_page

\* get_page, lines 204-208 and 235-238: the map lookup.  A hit keeps the DashMap
\* Ref (the shard's read lock) until the call returns; a miss is todo!().
GetPageCall(t, id) ==
    /\ Begin(t)
    /\ IF id \in DOMAIN buffer_map
       THEN /\ map_refs' = map_refs + 1
            /\ buffer_id' = [buffer_id EXCEPT ![t] = buffer_map[id]]
            /\ pc' = [pc EXCEPT ![t] = "get_item_lock"]
            /\ op' = [op EXCEPT ![t] = [NoOp EXCEPT !.name = "get_page", !.id = id]]
            /\ held' = [held EXCEPT ![t] = <<"map">>]
            /\ UNCHANGED result
       ELSE /\ Panic(t, [NoOp EXCEPT !.name = "get_page", !.id = id], "PanicTodo")
            /\ UNCHANGED <<map_refs, buffer_id>>
    /\ UNCHANGED <<buffer_map, item_lock, frame_lock, metadata_lock, metadata,
                   frame_buffer, guards>>
    /\ UNCHANGED outside_pool

\* line 211: page_table_item_read_lock_raw.lock_shared()
GetItemLock(t) ==
    /\ pc[t] = "get_item_lock"
    /\ CanLockShared(item_lock[Slot(t)])
    /\ item_lock' = [item_lock EXCEPT ![Slot(t)] = LockShared(@)]
    /\ held' = [held EXCEPT ![t] = Append(@, "item")]
    /\ pc' = [pc EXCEPT ![t] = "get_frame_lock"]
    /\ UNCHANGED <<buffer_map, map_refs, frame_lock, metadata_lock, metadata,
                   frame_buffer, op, buffer_id, guards, result, calls, nested>>
    /\ UNCHANGED outside_pool

\* line 221: frame_read_lock_raw.lock_shared()
\* Line 219 before it: on an item that is not Occupied the call panics; the
\* unwinding drops the DashMap Ref, and nothing unlocks the raw item lock.
GetFrameLock(t) ==
    /\ pc[t] = "get_frame_lock"
    /\ IF buffer_id[t] \in OccupiedFrames
       THEN /\ CanLockShared(frame_lock[Slot(t)])
            /\ frame_lock' = [frame_lock EXCEPT ![Slot(t)] = LockShared(@)]
            /\ held' = [held EXCEPT ![t] = Append(@, "frame")]
            /\ pc' = [pc EXCEPT ![t] = "get_metadata_lock"]
            /\ UNCHANGED <<map_refs, op, result>>
       ELSE /\ Panic(t, op[t], "PanicNotOccupied")
            /\ map_refs' = map_refs - 1
            /\ UNCHANGED frame_lock
    /\ UNCHANGED <<buffer_map, item_lock, metadata_lock, metadata,
                   frame_buffer, buffer_id, guards, calls, nested>>
    /\ UNCHANGED outside_pool

\* line 230: metadata.lock()
GetMetadataLock(t) ==
    /\ pc[t] = "get_metadata_lock"
    /\ metadata_lock[Slot(t)] = NoThread
    /\ metadata_lock' = [metadata_lock EXCEPT ![Slot(t)] = t]
    /\ held' = [held EXCEPT ![t] = Append(@, "metadata")]
    /\ pc' = [pc EXCEPT ![t] = "get_return"]
    /\ UNCHANGED <<buffer_map, map_refs, item_lock, frame_lock, metadata,
                   frame_buffer, op, buffer_id, guards, result, calls, nested>>
    /\ UNCHANGED outside_pool

\* lines 231-234: access_count += 1, the metadata guard is dropped, the
\* PageReadLock is built over the frame's bytes and the DashMap Ref is dropped.
\* A guard records the slot whose two read locks it owns, the buffer id of its
\* bytes, and, as a history value, the bytes it showed when it was made.
GetReturn(t) ==
    /\ pc[t] = "get_return"
    /\ metadata' = [metadata EXCEPT ![Slot(t)].access_count = @ + 1]
    /\ metadata_lock' = [metadata_lock EXCEPT ![Slot(t)] = NoThread]
    /\ guards' = [guards EXCEPT ![t] =
                    Append(@, [slot |-> Slot(t), index |-> buffer_id[t],
                               seen |-> Slice(frame_buffer,
                                              get_frame_range(buffer_id[t], 0))])]
    /\ map_refs' = map_refs - 1
    /\ held' = [held EXCEPT ![t] = <<>>]
    /\ pc' = [pc EXCEPT ![t] = "idle"]
    /\ op' = [op EXCEPT ![t] = Done(@)]
    /\ result' = [result EXCEPT ![t] = "Guard"]
    /\ UNCHANGED <<buffer_map, item_lock, frame_lock, frame_buffer, buffer_id,
                   calls, nested>>
    /\ UNCHANGED outside_pool

\* Drop for PageReadLock, lines 38-47: the frame's read lock, then the item's.
\* A panicked thread drops its guards while it unwinds.
RemoveAt(s, n) == [j \in 1..(Len(s) - 1) |-> IF j < n THEN s[j] ELSE s[j + 1]]

DropGuard_FrameOnly(t, n) ==
    /\ pc[t] \in {"idle", "panicked"}
    /\ n \in 1..Len(guards[t])
    /\ frame_lock' = [frame_lock EXCEPT ![guards[t][n].slot] = UnlockShared(@)]
    /\ guards' = [guards EXCEPT ![t] = RemoveAt(@, n)]
    /\ UNCHANGED <<buffer_map, map_refs, item_lock, metadata_lock, metadata,
                   frame_buffer, pc, op, buffer_id, held, result, calls, nested>>
    /\ UNCHANGED outside_pool
DropGuard(t, n) ==
    /\ pc[t] \in {"idle", "panicked"}
    /\ n \in 1..Len(guards[t])
    /\ frame_lock' = [frame_lock EXCEPT ![guards[t][n].slot] = UnlockShared(@)]
    /\ item_lock' = [item_lock EXCEPT ![guards[t][n].slot] = UnlockShared(@)]
    /\ guards' = [guards EXCEPT ![t] = RemoveAt(@, n)]
    /\ UNCHANGED <<buffer_map, map_refs, metadata_lock, metadata, frame_buffer,
                   pc, op, buffer_id, held, result, calls, nested>>
    /\ UNCHANGED outside_pool

\* ----------------------------------------------------------- mutate_page

\* mutate_page, lines 242-243: the two assertions, in the order of the code.
CheckArgs(offset, len) ==
    IF offset % PageSize # 0 THEN "PanicAssertAligned"
    ELSE IF ~(offset + len <= PageSize) THEN "PanicAssertInRange"
    ELSE "ok"

\* mutate_page, lines 242-245: the assertions, then the map lookup and its unwrap.
MutatePageCall(t, id, offset, data) ==
    LET o == [name |-> "mutate_page", id |-> id, offset |-> offset, data |-> data]
        checked == CheckArgs(offset, Len(data))
        ok == checked = "ok" /\ id \in DOMAIN buffer_map
    IN
    /\ Begin(t)
    /\ IF ok
       THEN /\ map_refs' = map_refs + 1
            /\ buffer_id' = [buffer_id EXCEPT ![t] = buffer_map[id]]
            /\ pc' = [pc EXCEPT ![t] = "mutate_item_lock"]
            /\ op' = [op EXCEPT ![t] = o]
            /\ held' = [held EXCEPT ![t] = <<"map">>]
            /\ UNCHANGED result
       ELSE /\ Panic(t, o, IF checked # "ok" THEN checked ELSE "PanicUnwrapNone")
            /\ UNCHANGED <<map_refs, buffer_id>>
    /\ UNCHANGED <<buffer_map, item_lock, frame_lock, metadata_lock, metadata,
                   frame_buffer, guards>>
    /\ UNCHANGED outside_pool

\* line 251: page_table_item_lock.read()
MutateItemLock_AfterFrame(t) ==
    /\ pc[t] = "mutate_item_lock"
    /\ CanSetWriterBit(frame_lock[Slot(t)])
    /\ ReadersDrained(frame_lock[Slot(t)])
    /\ CanLockShared(item_lock[Slot(t)])
    /\ frame_lock' = [frame_lock EXCEPT ![Slot(t)].writer = t]
    /\ item_lock' = [item_lock EXCEPT ![Slot(t)] = LockShared(@)]
    /\ held' = [held EXCEPT ![t] = @ \o <<"frame", "item">>]
    /\ pc' = [pc EXCEPT ![t] = "mutate_copy"]
    /\ UNCHANGED <<buffer_map, map_refs, metadata_lock, metadata, frame_buffer,
                   op, buffer_id, guards, result, calls, nested>>
    /\ UNCHANGED outside_pool
MutateItemLock(t) ==
    /\ pc[t] = "mutate_item_lock"
    /\ CanLockShared(item_lock[Slot(t)])
    /\ item_lock' = [item_lock EXCEPT ![Slot(t)] = LockShared(@)]
    /\ held' = [held EXCEPT ![t] = Append(@, "item")]
    /\ pc' = [pc EXCEPT ![t] = "mutate_frame_lock"]
    /\ UNCHANGED <<buffer_map, map_refs, frame_lock, metadata_lock, metadata,
                   frame_buffer, op, buffer_id, guards, result, calls, nested>>
    /\ UNCHANGED outside_pool

\* line 254, frame_lock.write(), first half: WRITER_BIT is taken.
\* Line 253 before it: on an item that is not Occupied the call panics, and
\* the unwinding drops the item read guard and the DashMap Ref.
MutateFrameLock(t) ==
    /\ pc[t] = "mutate_frame_lock"
    /\ IF buffer_id[t] \in OccupiedFrames
       THEN /\ CanSetWriterBit(frame_lock[Slot(t)])
            /\ frame_lock' = [frame_lock EXCEPT ![Slot(t)].writer = t]
            /\ pc' = [pc EXCEPT ![t] = "mutate_wait_readers"]
            /\ UNCHANGED <<map_refs, item_lock, op, held, result>>
       ELSE /\ Panic(t, op[t], "PanicNotOccupied")
            /\ item_lock' = [item_lock EXCEPT ![Slot(t)] = UnlockShared(@)]
            /\ map_refs' = map_refs - 1
            /\ UNCHANGED frame_lock
    /\ UNCHANGED <<buffer_map, metadata_lock, metadata,
                   frame_buffer, buffer_id, guards, calls, nested>>
    /\ UNCHANGED outside_pool

\* line 254, second half: the writer waits until the readers are gone.
MutateWaitReaders(t) ==
    /\ pc[t] = "mutate_wait_readers"
    /\ ReadersDrained(frame_lock[Slot(t)])
    /\ held' = [held EXCEPT ![t] = Append(@, "frame")]
    /\ pc' = [pc EXCEPT ![t] = "mutate_copy"]
    /\ UNCHANGED <<buffer_map, map_refs, item_lock, frame_lock, metadata_lock,
                   metadata, frame_buffer, op, buffer_id, guards, result, calls,
                   nested>>
    /\ UNCHANGED outside_pool

\* lines 257-261: copy_from_slice into the range from `offset` to the end of the
\* frame; it panics when the lengths differ, and the unwinding drops the frame
\* write guard, the item read guard and the DashMap Ref.
MutateCopy(t) ==
    LET r == get_frame_range(buffer_id[t], op[t].offset) IN
    /\ pc[t] = "mutate_copy"
    /\ IF RangeLen(r) = Len(op[t].data)
       THEN /\ frame_buffer' = CopyFromSlice(frame_buffer, r, op[t].data)
            /\ pc' = [pc EXCEPT ![t] = "mutate_metadata_lock"]
            /\ UNCHANGED <<map_refs, item_lock, frame_lock, op, held, result>>
       ELSE /\ Panic(t, op[t], "PanicCopyLen")
            /\ frame_lock' = [frame_lock EXCEPT ![Slot(t)] = UnlockExclusive(@)]
            /\ item_lock' = [item_lock EXCEPT ![Slot(t)] = UnlockShared(@)]
            /\ map_refs' = map_refs - 1
            /\ UNCHANGED frame_buffer
    /\ UNCHANGED <<buffer_map, metadata_lock, metadata, buffer_id, guards, calls,
                   nested>>
    /\ UNCHANGED outside_pool

\* line 264: metadata.lock()
MutateMetadataLock(t) ==
    /\ pc[t] = "mutate_metadata_lock"
    /\ metadata_lock[Slot(t)] = NoThread
    /\ metadata_lock' = [metadata_lock EXCEPT ![Slot(t)] = t]
    /\ held' = [held EXCEPT ![t] = Append(@, "metadata")]
    /\ pc' = [pc EXCEPT ![t] = "mutate_return"]
    /\ UNCHANGED <<buffer_map, map_refs, item_lock, frame_lock, metadata,
                   frame_buffer, op, buffer_id, guards, result, calls, nested>>
    /\ UNCHANGED outside_pool

\* lines 265-268: access_count += 1, set_is_dirty(true); then every guard of the
\* call is dropped: metadata, frame write lock, item read lock, DashMap Ref.
MutateReturn_NoCount(t) ==
    /\ pc[t] = "mutate_return"
    /\ metadata' = [metadata EXCEPT ![Slot(t)].flags = set_is_dirty(@, TRUE)]
    /\ metadata_lock' = [metadata_lock EXCEPT ![Slot(t)] = NoThread]
    /\ frame_lock' = [frame_lock EXCEPT ![Slot(t)] = UnlockExclusive(@)]
    /\ item_lock' = [item_lock EXCEPT ![Slot(t)] = UnlockShared(@)]
    /\ map_refs' = map_refs - 1
    /\ held' = [held EXCEPT ![t] = <<>>]
    /\ pc' = [pc EXCEPT ![t] = "idle"]
    /\ op' = [op EXCEPT ![t] = Done(@)]
    /\ result' = [result EXCEPT ![t] = "Ok"]
    /\ UNCHANGED <<buffer_map, frame_buffer, buffer_id, guards, calls, nested>>
    /\ UNCHANGED outside_pool
MutateReturn(t) ==
    /\ pc[t] = "mutate_return"
    /\ metadata' = [metadata EXCEPT
                      ![Slot(t)].access_count = @ + 1,
                      ![Slot(t)].flags = set_is_dirty(@, TRUE)]
    /\ metadata_lock' = [metadata_lock EXCEPT ![Slot(t)] = NoThread]
    /\ frame_lock' = [frame_lock EXCEPT ![Slot(t)] = UnlockExclusive(@)]
    /\ item_lock' = [item_lock EXCEPT ![Slot(t)] = UnlockShared(@)]
    /\ map_refs' = map_refs - 1
    /\ held' = [held EXCEPT ![t] = <<>>]
    /\ pc' = [pc EXCEPT ![t] = "idle"]
    /\ op' = [op EXCEPT ![t] = Done(@)]
    /\ result' = [result EXCEPT ![t] = "Ok"]
    /\ UNCHANGED <<buffer_map, frame_buffer, buffer_id, guards, calls, nested>>
    /\ UNCHANGED outside_pool

\* ------------------------------------------------------------- load_page

\* load_page of the later draft: todo!().
LoadPageCall(t, id, data) ==
    /\ Begin(t)
    /\ Panic(t, [NoOp EXCEPT !.name = "load_page", !.id = id], "PanicTodo")
    /\ UNCHANGED <<buffer_map, map_refs, item_lock, frame_lock, metadata_lock,
                   metadata, frame_buffer, buffer_id, guards>>
    /\ UNCHANGED outside_pool

\* ------------------------------------------------- set_page_pinned_state

\* set_page_pinned_state of the later draft: todo!().
SetPagePinnedStateCall(t, id, pinned) ==
    /\ Begin(t)
    /\ Panic(t, [NoOp EXCEPT !.name = "set_page_pinned_state", !.id = id],
             "PanicTodo")
    /\ UNCHANGED <<buffer_map, map_refs, item_lock, frame_lock, metadata_lock,
                   metadata, frame_buffer, buffer_id, guards>>
    /\ UNCHANGED outside_pool

\* ------------------------------------------------------------------ Next

\* The arguments callers pass: any offset up to one past the page, and data
\* of one repeated byte, of any length up to one more than the page.
Offsets == 0..(PageSize + 1)
Datas == {Fill(len, v) : len \in 0..(PageSize + 1), v \in 1..MaxByte}

Step(t) ==
    \/ GetItemLock(t)
    \/ GetFrameLock(t)
    \/ GetMetadataLock(t)
    \/ GetReturn(t)
    \/ MutateItemLock(t)
    \/ MutateFrameLock(t)
    \/ MutateWaitReaders(t)
    \/ MutateCopy(t)
    \/ MutateMetadataLock(t)
    \/ MutateReturn(t)

Drop(t) == \E n \in 1..MaxCalls : DropGuard(t, n)

Call(t) ==
    \/ \E id \in Keys : GetPageCall(t, id)
    \/ \E id \in Keys, offset \in Offsets, data \in Datas :
          MutatePageCall(t, id, offset, data)
    \/ \E id \in Keys, data \in Datas : LoadPageCall(t, id, data)
    \/ \E id \in Keys, pinned \in BOOLEAN : SetPagePinnedStateCall(t, id, pinned)

Next == \E t \in Threads : Call(t) \/ Step(t) \/ Drop(t)

Spec == Init /\ [][Next]_vars

\* The same calls on a pool in which the last key is mapped too, to an item
\* that is Free.
FreeItemSpec == InitOf(Keys) /\ [][Next]_vars


\* Callers that keep to resident keys and to whole-page or one-byte-short
\* writes at offset 0: the runs in which calls contend for the locks.
ResidentCall(t) ==
    \/ \E id \in DOMAIN buffer_map : GetPageCall(t, id)
    \/ \E id \in DOMAIN buffer_map, len \in {PageSize - 1, PageSize} :
          MutatePageCall(t, id, 0, Fill(len, MaxByte))

ResidentNext == \E t \in Threads : ResidentCall(t) \/ Step(t) \/ Drop(t)

\* Scheduling is fair to every thread that can take a step of its call, and every
\* guard is eventually dropped by its owner.
ResidentFairSpec ==
    /\ Init /\ [][ResidentNext]_vars
    /\ \A t \in Threads : WF_vars(Step(t))
    /\ \A t \in Threads : WF_vars(Drop(t))

\* ------------------------------------------------- buffer pool manager
\* BufferPoolManagerImpl of src/src/src/buffer_pool_manager/mod.rs.  Each call
\* takes the lock of `pools` (read() or write()), unwraps the result, which
\* panics when the lock is poisoned, works on the map, and drops the guard.

MaxSize == 1

Tables == {"Person", "PhoneNumber"}
\* An Option<usize> argument is a sequence: <<>> is None, <<n>> is Some(n).
SizeArgs == {<<>>} \cup {<<n>> : n \in 0..MaxSize}

\* BufferPoolManagerConfig, with the values of api_test_without_load.
default_page_size == 16
default_entries_count == 8

\* create_buffer_pool, lines 34-44: each parameter falls back to its default.
ResolveArgs_SharedDefault(page_size, entries_count) ==
    IF page_size # <<>> /\ entries_count # <<>>
    THEN [page_size |-> page_size[1], entries_count |-> entries_count[1]]
    ELSE [page_size |-> default_page_size, entries_count |-> default_entries_count]
ResolveArgs(page_size, entries_count) ==
    [page_size |-> IF page_size # <<>> THEN page_size[1] ELSE default_page_size,
     entries_count |-> IF entries_count # <<>> THEN entries_count[1]
                       ELSE default_entries_count]

\* BufferPoolImpl::new: FrameBuffer::new asserts both sizes to be positive and
\* zero-fills page_size * entries_count bytes; PageTable::new is empty.  `inst`
\* tells the values built apart (the identity of the Arc).
BufferPoolImplNew(page_size, entries_count, inst) ==
    [inst |-> inst, page_size |-> page_size, entries_count |-> entries_count,
     pages |-> {}]
NewPanics(page_size, entries_count) ==
    IF ~(page_size > 0) THEN "PanicAssertPageSize"
    ELSE IF ~(entries_count > 0) THEN "PanicAssertEntriesCount"
    ELSE "ok"

\* HashMap::insert: the value of `key` is set, or replaced when there is one.
Insert_Clear(map, key, value) == [k \in {key} |-> value]
Insert(map, key, value) ==
    [k \in DOMAIN map \cup {key} |-> IF k = key THEN value ELSE map[k]]

\* std RwLock::write() is granted when nobody holds the lock.
CanLockExclusive_OverReaders(l) == CanSetWriterBit(l)
CanLockExclusive(l) == CanSetWriterBit(l) /\ ReadersDrained(l)

\* A manager call begins: the thread goes for the lock of `pools`.
ManagerCall(t, o, at) ==
    /\ Begin(t)
    /\ pc' = [pc EXCEPT ![t] = at]
    /\ op' = [op EXCEPT ![t] = o]
    /\ UNCHANGED <<result, manager>>
    /\ UNCHANGED outside_manager

\* The call panics and the thread unwinds, dropping the guard it may hold.
Unwind(t, why) ==
    /\ pc' = [pc EXCEPT ![t] = "panicked"]
    /\ result' = [result EXCEPT ![t] = why]
    /\ op' = [op EXCEPT ![t] = [name |-> @.name, table_id |-> @.table_id]]
    /\ UNCHANGED <<calls, nested>>

\* The call returns; of the call, its name and table id are remembered.
Return(t, value) ==
    /\ pc' = [pc EXCEPT ![t] = "idle"]
    /\ result' = [result EXCEPT ![t] = value]
    /\ op' = [op EXCEPT ![t] = [name |-> @.name, table_id |-> @.table_id]]
    /\ UNCHANGED <<calls, nested>>

\* self.pools.read().unwrap(): on a poisoned lock the Err holds the guard, and
\* the unwrap panics and drops it.
ReadLock(t, at) ==
    /\ CanLockShared(pools_lock)
    /\ IF poisoned
       THEN Unwind(t, "PanicPoisoned") /\ UNCHANGED pools_lock
       ELSE /\ pools_lock' = LockShared(pools_lock)
            /\ pc' = [pc EXCEPT ![t] = at]
            /\ UNCHANGED <<op, result, calls, nested>>
    /\ UNCHANGED <<pools, poisoned, handle, created, next_pool>>
    /\ UNCHANGED outside_manager

\* contains_buffer_pool, lines 23-26
ContainsBufferPoolCall(t, table_id) ==
    ManagerCall(t, [name |-> "contains_buffer_pool", table_id |-> table_id],
                "contains_lock")
ContainsBufferPoolLock(t) ==
    pc[t] = "contains_lock" /\ ReadLock(t, "contains_return")
ContainsBufferPoolReturn(t) ==
    /\ pc[t] = "contains_return"
    /\ Return(t, IF op[t].table_id \in DOMAIN pools THEN "true" ELSE "false")
    /\ pools_lock' = UnlockShared(pools_lock)
    /\ UNCHANGED <<pools, poisoned, handle, created, next_pool>>
    /\ UNCHANGED outside_manager

\* create_buffer_pool, lines 28-44: the sizes are resolved before the lock.
CreateBufferPoolCall(t, table_id, page_size, entries_count) ==
    LET sizes == ResolveArgs(page_size, entries_count) IN
    ManagerCall(t, [name |-> "create_buffer_pool", table_id |-> table_id,
                    page_size_arg |-> page_size, entries_count_arg |-> entries_count,
                    page_size |-> sizes.page_size,
                    entries_count |-> sizes.entries_count],
                "create_lock")

\* line 46: self.pools.write().unwrap()
CreateBufferPoolLock(t) ==
    /\ pc[t] = "create_lock"
    /\ CanLockExclusive(pools_lock)
    /\ IF poisoned
       THEN Unwind(t, "PanicPoisoned") /\ UNCHANGED pools_lock
       ELSE /\ pools_lock' = [pools_lock EXCEPT !.writer = t]
            /\ pc' = [pc EXCEPT ![t] = "create_insert"]
            /\ UNCHANGED <<op, result, calls, nested>>
    /\ UNCHANGED <<pools, poisoned, handle, created, next_pool>>
    /\ UNCHANGED outside_manager

\* lines 47-51: the pool is built under the write guard and inserted.  When
\* BufferPoolImpl::new panics, the guard is dropped by a panicking thread, which
\* poisons the lock.
CreateBufferPoolInsert(t) ==
    LET o == op[t]
        panics == NewPanics(o.page_size, o.entries_count)
    IN
    /\ pc[t] = "create_insert"
    /\ pools_lock' = UnlockExclusive(pools_lock)
    /\ IF panics # "ok"
       THEN /\ Unwind(t, panics)
            /\ poisoned' = TRUE
            /\ UNCHANGED <<pools, created, next_pool>>
       ELSE /\ pools' = Insert(pools, o.table_id,
                               BufferPoolImplNew(o.page_size, o.entries_count,
                                                 next_pool))
            /\ next_pool' = next_pool + 1
            /\ created' = created \cup {o.table_id}
            /\ Return(t, "Ok")
            /\ UNCHANGED poisoned
    /\ UNCHANGED handle
    /\ UNCHANGED outside_manager

\* get_buffer_pool, lines 53-57: the lookup is unwrapped; the read guard is
\* dropped on return and on unwinding alike (a read guard does not poison).
GetBufferPoolCall(t, table_id) ==
    ManagerCall(t, [name |-> "get_buffer_pool", table_id |-> table_id],
                "get_pool_lock")
GetBufferPoolLock(t) ==
    pc[t] = "get_pool_lock" /\ ReadLock(t, "get_pool_return")
GetBufferPoolReturn(t) ==
    /\ pc[t] = "get_pool_return"
    /\ pools_lock' = UnlockShared(pools_lock)
    /\ IF op[t].table_id \in DOMAIN pools
       THEN /\ handle' = [handle EXCEPT ![t] = <<pools[op[t].table_id]>>]
            /\ Return(t, "Handle")
       ELSE /\ Unwind(t, "PanicUnwrapNone")
            /\ UNCHANGED handle
    /\ UNCHANGED <<pools, poisoned, created, next_pool>>
    /\ UNCHANGED outside_manager

ManagerStep(t) ==
    \/ ContainsBufferPoolLock(t)
    \/ ContainsBufferPoolReturn(t)
    \/ CreateBufferPoolLock(t)
    \/ CreateBufferPoolInsert(t)
    \/ GetBufferPoolLock(t)
    \/ GetBufferPoolReturn(t)

ManagerCalls(t) ==
    \/ \E table_id \in Tables : ContainsBufferPoolCall(t, table_id)
    \/ \E table_id \in Tables, page_size \in SizeArgs, entries_count \in SizeArgs :
          CreateBufferPoolCall(t, table_id, page_size, entries_count)
    \/ \E table_id \in Tables : GetBufferPoolCall(t, table_id)

ManagerNext == \E t \in Threads : ManagerCalls(t) \/ ManagerStep(t)

ManagerSpec == Init /\ [][ManagerNext]_vars

\* ------------------------------------------- page table of the later draft
\* PageTable of src/src/src/buffer_pool_manager/buffer_pool.rs: `table` behind
\* an UnsafeCell and the reference counts of its entries in `ref_table`, behind
\* a parking_lot RwLock that get_read and the drop of a handle take with
\* write(), and remove takes upgradable and upgrades.

outside_page_table == <<buffer_map, map_refs, item_lock, frame_lock,
                        metadata_lock, metadata, frame_buffer, buffer_id, guards,
                        disk, manager, frame_store, file_io>>

\* write() and lock_upgradable() are granted when the lock has neither a writer
\* nor an upgradable reader (the code takes no plain read lock).
RefTableLockFree == ref_table_lock.writer = NoThread
                    /\ ref_table_lock.upgradable = NoThread

\* The live handles on key id, as (owner, position) pairs.
HandlesOn(id) ==
    {tn \in Threads \X (1..MaxCalls) :
        tn[2] <= Len(read_locks[tn[1]]) /\ read_locks[tn[1]][tn[2]] = id}

\* get_read, line 215: the call goes for ref_table.write().
GetReadCall(t, id) ==
    /\ Begin(t)
    /\ pc' = [pc EXCEPT ![t] = "get_read_lock"]
    /\ op' = [op EXCEPT ![t] = [NoOp EXCEPT !.name = "get_read", !.id = id]]
    /\ UNCHANGED <<result, held, page_table>>
    /\ UNCHANGED outside_page_table

\* lines 216-226, under the write guard: the count of id is incremented, or
\* inserted as 1; then table.get(&id) is unwrapped, which panics for a key that
\* has no entry, after the count was changed.  The guard is dropped either way.
GetReadBody(t) ==
    LET id == op[t].id IN
    /\ pc[t] = "get_read_lock"
    /\ RefTableLockFree
    /\ ref_table' = IF id \in DOMAIN ref_table
                    THEN [ref_table EXCEPT ![id] = @ + 1]
                    ELSE Insert(ref_table, id, 1)
    /\ IF id \in table
       THEN /\ read_locks' = [read_locks EXCEPT ![t] = Append(@, id)]
            /\ pc' = [pc EXCEPT ![t] = "idle"]
            /\ op' = [op EXCEPT ![t] = Done(@)]
            /\ result' = [result EXCEPT ![t] = "Handle"]
            /\ UNCHANGED held
       ELSE /\ Panic(t, op[t], "PanicUnwrapNone")
            /\ UNCHANGED read_locks
    /\ UNCHANGED <<table, ref_table_lock, calls, nested>>
    /\ UNCHANGED outside_page_table

\* Drop for PageTableItemReadLock, lines 198-205: under ref_table.write() the
\* count of the handle's key is unwrapped and decremented.  A handle whose key
\* has no count, or the count 0, would make the drop fail; no run gets there.
DropReadLock(t, n) ==
    /\ pc[t] \in {"idle", "panicked"}
    /\ n \in 1..Len(read_locks[t])
    /\ RefTableLockFree
    /\ read_locks' = [read_locks EXCEPT ![t] = RemoveAt(@, n)]
    /\ IF read_locks[t][n] \in DOMAIN ref_table /\ ref_table[read_locks[t][n]] > 0
       THEN /\ ref_table' = [ref_table EXCEPT ![read_locks[t][n]] = @ - 1]
            /\ UNCHANGED <<pc, result>>
       ELSE /\ pc' = [pc EXCEPT ![t] = "panicked"]
            /\ result' = [result EXCEPT ![t] = "PanicInDrop"]
            /\ UNCHANGED ref_table
    /\ UNCHANGED <<table, ref_table_lock, op, held, calls, nested>>
    /\ UNCHANGED outside_page_table

\* remove, lines 229-231: the call enters its polling loop.
RemoveCall(t, id) ==
    /\ Begin(t)
    /\ pc' = [pc EXCEPT ![t] = "remove_lock"]
    /\ op' = [op EXCEPT ![t] = [NoOp EXCEPT !.name = "remove", !.id = id]]
    /\ UNCHANGED <<result, held, page_table>>
    /\ UNCHANGED outside_page_table

\* line 233: ref_table_read_lock_raw.lock_upgradable()
RemoveLockUpgradable(t) ==
    /\ pc[t] = "remove_lock"
    /\ RefTableLockFree
    /\ ref_table_lock' = [ref_table_lock EXCEPT !.upgradable = t]
    /\ pc' = [pc EXCEPT ![t] = "remove_check"]
    /\ UNCHANGED <<table, ref_table, read_locks, op, result, held, calls, nested>>
    /\ UNCHANGED outside_page_table

\* lines 238 and 253-255: the count of id is unwrapped, which panics for a key
\* without a count and leaves the raw lock locked; a count of 0 goes on to the
\* upgrade with the lock held; otherwise the lock is unlocked and the thread
\* sleeps before the next round.
RemoveCheck_Unlock(t) ==
    /\ pc[t] = "remove_check"
    /\ ref_table_lock' = [ref_table_lock EXCEPT !.upgradable = NoThread]
    /\ IF op[t].id \notin DOMAIN ref_table
       THEN Panic(t, op[t], "PanicUnwrapNone")
       ELSE /\ pc' = [pc EXCEPT ![t] = IF ref_table[op[t].id] = 0
                                       THEN "remove_upgrade" ELSE "remove_sleep"]
            /\ UNCHANGED <<op, result, held>>
    /\ UNCHANGED <<table, ref_table, read_locks, calls, nested>>
    /\ UNCHANGED outside_page_table
RemoveCheck(t) ==
    /\ pc[t] = "remove_check"
    /\ IF op[t].id \notin DOMAIN ref_table
       THEN Panic(t, op[t], "PanicUnwrapNone") /\ UNCHANGED ref_table_lock
       ELSE IF ref_table[op[t].id] = 0
       THEN /\ pc' = [pc EXCEPT ![t] = "remove_upgrade"]
            /\ UNCHANGED <<ref_table_lock, op, result, held>>
       ELSE /\ ref_table_lock' = [ref_table_lock EXCEPT !.upgradable = NoThread]
            /\ pc' = [pc EXCEPT ![t] = "remove_sleep"]
            /\ UNCHANGED <<op, result, held>>
    /\ UNCHANGED <<table, ref_table, read_locks, calls, nested>>
    /\ UNCHANGED outside_page_table

\* line 255: the sleep is over, the loop starts again.
RemoveSleep(t) ==
    /\ pc[t] = "remove_sleep"
    /\ pc' = [pc EXCEPT ![t] = "remove_lock"]
    /\ UNCHANGED <<page_table, op, result, held, calls, nested>>
    /\ UNCHANGED outside_page_table

\* lines 240-250: the lock is upgraded (no plain reader is there to wait for),
\* id is removed from ref_table and from table, and the call returns; the raw
\* lock is not unlocked on this path.
RemoveUpgrade(t) ==
    /\ pc[t] = "remove_upgrade"
    /\ ref_table_lock' = [writer |-> t, upgradable |-> NoThread]
    /\ ref_table' = [k \in DOMAIN ref_table \ {op[t].id} |-> ref_table[k]]
    /\ table' = table \ {op[t].id}
    /\ pc' = [pc EXCEPT ![t] = "idle"]
    /\ op' = [op EXCEPT ![t] = Done(@)]
    /\ result' = [result EXCEPT ![t] = "Ok"]
    /\ UNCHANGED <<read_locks, held, calls, nested>>
    /\ UNCHANGED outside_page_table

PageTableStep(t) ==
    \/ GetReadBody(t)
    \/ RemoveLockUpgradable(t)
    \/ RemoveCheck(t)
    \/ RemoveSleep(t)
    \/ RemoveUpgrade(t)
    \/ \E n \in 1..MaxCalls : DropReadLock(t, n)

PageTableCall(t) ==
    \/ \E id \in Keys : GetReadCall(t, id)
    \/ \E id \in Keys : RemoveCall(t, id)

PageTableNext == \E t \in Threads : PageTableCall(t) \/ PageTableStep(t)

PageTableSpec == Init /\ [][PageTableNext]_vars

\* ------------------------------------------------- metadata flags alone
\* PageTableItemMetadataFlags is a u8 behind &mut self: the setter is one step.
\* The byte of every entry starts at any of its 256 values, and the setter
\* generated by create_page_table_item_metadata_flags_get_set! is applied to it.

SetIsDirty(i, value) ==
    /\ metadata' = [metadata EXCEPT ![LockSlot(i)].flags = set_is_dirty(@, value)]
    /\ UNCHANGED <<buffer_map, map_refs, item_lock, frame_lock, metadata_lock,
                   frame_buffer, pc, op, buffer_id, held, guards, result, calls,
                   nested>>
    /\ UNCHANGED outside_pool

FlagsInit == \E flags \in 0..FlagsAllOnes : InitWith(InitialResident, flags)

FlagsNext == \E i \in OccupiedFrames, value \in BOOLEAN : SetIsDirty(i, value)

FlagsSpec == FlagsInit /\ [][FlagsNext]_vars

\* ------------------------------- frame buffer and page table, first draft
\* FrameBuffer of src/src/src/buffer_pool_manager/frame_buffer.rs (a Vec<bool>
\* of occupancy marks over one Vec<u8>) and PageTable of page_table.rs (a
\* HashMap from page id to PageTableItem).  Both are used through &mut self, so
\* every call is one step; nothing in the repository calls them together.

outside_frame_store == <<buffer_map, map_refs, item_lock, frame_lock,
                         metadata_lock, metadata, frame_buffer, pc, op,
                         buffer_id, held, guards, result, calls, nested, disk,
                         manager, page_table, file_io>>

FrameIndexes == 0..(FRAME_BUFFER_PAGES_SIZE - 1)
PageIds == 0..(EntriesCount - 1)
\* The slices a caller passes to safe_load_page: of one page, or a byte short.
PageDatas == [1..PageSize -> Bytes]
ShortDatas == [1..(PageSize - 1) -> Bytes]

\* FrameBuffer::index: the byte offset of frame `i`.
index(i) == PageSize * i

\* FrameBuffer::find_first_free_index: the loop over 0..FRAME_BUFFER_PAGES_SIZE.
RECURSIVE first_free_from(_, _)
first_free_from(occ, i) ==
    IF i >= FRAME_BUFFER_PAGES_SIZE THEN <<>>
    ELSE IF ~occ[i] THEN <<i>>
    ELSE first_free_from(occ, i + 1)
find_first_free_index_SkipFirst(occ) == first_free_from(occ, 1)
find_first_free_index(occ) == first_free_from(occ, 0)

\* FrameBuffer::get_page_data: None, or Some of the bytes of the frame.
get_page_data_Unmarked(occ, buf, i) ==
    << [j \in 1..PageSize |-> buf[index(i) + j - 1]] >>
get_page_data(occ, buf, i) ==
    IF ~occ[i] THEN <<>>
    ELSE << [j \in 1..PageSize |-> buf[index(i) + j - 1]] >>

\* What a call returned: an Option<usize> in `found`, an Option<&[u8]> in `data`.
Returned(call, found, data) ==
    [call |-> call, found |-> found, data |-> data, panicked |-> FALSE]

FindFirstFreeIndex ==
    /\ frame_result' = Returned("find_first_free_index",
                                find_first_free_index(occupied), <<>>)
    /\ UNCHANGED <<occupied, buffer, item_table>>
    /\ UNCHANGED outside_frame_store

GetPageData(i) ==
    /\ frame_result' = Returned("get_page_data", <<>>,
                                get_page_data(occupied, buffer, i))
    /\ UNCHANGED <<occupied, buffer, item_table>>
    /\ UNCHANGED outside_frame_store

\* FrameBuffer::clear_page: only the mark is cleared, the bytes stay.
ClearPage(i) ==
    /\ occupied' = [occupied EXCEPT ![i] = FALSE]
    /\ frame_result' = Returned("clear_page", <<>>, <<>>)
    /\ UNCHANGED <<buffer, item_table>>
    /\ UNCHANGED outside_frame_store

\* FrameBuffer::safe_load_page: shared_load_page marks the frame, then
\* copy_from_slice panics when data is not of one page.
SafeLoadPage(i, data) ==
    /\ occupied' = [occupied EXCEPT ![i] = TRUE]
    /\ IF Len(data) = index(i + 1) - index(i)
       THEN /\ buffer' = [b \in DOMAIN buffer |->
                            IF b >= index(i) /\ b < index(i + 1)
                            THEN data[b - index(i) + 1] ELSE buffer[b]]
            /\ frame_result' = Returned("safe_load_page", <<>>, <<>>)
       ELSE /\ buffer' = buffer
            /\ frame_result' = [call |-> "safe_load_page", found |-> <<>>,
                                data |-> <<>>, panicked |-> TRUE]
    /\ UNCHANGED item_table
    /\ UNCHANGED outside_frame_store

\* PageTableItem::new of page_table.rs.
PageTableItemNew(frame_buffer_index) ==
    [pinned |-> FALSE, ref_count |-> 0, state |-> "Clean",
     frame_buffer_index |-> frame_buffer_index]

\* PageTable::insert of page_table.rs: the new item with its ref_count
\* incremented goes into the map, in place of the item the page id had.
PageTableInsert(page_id, frame_buffer_index) ==
    /\ LET page_table_item == PageTableItemNew(frame_buffer_index)
       IN item_table' = Insert(item_table, page_id,
                               [page_table_item EXCEPT !.ref_count = @ + 1])
    /\ frame_result' = Returned("insert", <<>>, <<>>)
    /\ UNCHANGED <<occupied, buffer>>
    /\ UNCHANGED outside_frame_store

\* The calls on the frame buffer alone.
FrameBufferNext ==
    \/ FindFirstFreeIndex
    \/ \E i \in FrameIndexes :
          \/ GetPageData(i)
          \/ ClearPage(i)
          \/ \E data \in PageDatas \cup ShortDatas : SafeLoadPage(i, data)

FrameBufferSpec == Init /\ [][FrameBufferNext]_vars

\* The calls on the frame buffer and on the page table, in any order.
FrameStoreNext ==
    \/ FrameBufferNext
    \/ \E page_id \in PageIds, i \in FrameIndexes : PageTableInsert(page_id, i)

FrameStoreSpec == Init /\ [][FrameStoreNext]_vars

\* ----------------------------------------------------------- file layer
\* UnixFileIO of src/src/storage/fileio/unix/mod.rs: files opened with
\* O_SYNC | O_DIRECT, read with File::read_exact_at and written with
\* File::write_all_at.  A file on disk is [bytes, enforced]: the sequence of its
\* bytes, and whether its file system enforces the alignment of direct I/O; a
\* File value is [path, write].  The calls are made by one caller at a time.

outside_file_io == <<buffer_map, map_refs, item_lock, frame_lock,
                     metadata_lock, metadata, frame_buffer, pc, op, buffer_id,
                     held, guards, result, calls, nested, disk, manager,
                     page_table, frame_store>>

Paths == {"test"}
FileSlots == 1..NumThreads
FileOffsets == 0..MaxFileLen
\* The buffers a caller writes from: up to one block of bytes.
WriteBufs == UNION {[1..len -> Bytes] : len \in 0..BlockSize}

IoResult(call, kind, offset, data) ==
    [call |-> call, kind |-> kind, offset |-> offset, data |-> data]

\* O_DIRECT: the device transfers whole blocks between block-aligned file
\* offsets and block-aligned memory (the tests allocate their buffers with
\* posix_memalign); a file system that enforces it refuses any other transfer.
DirectIoAccepts(aligned, len, offset) ==
    aligned /\ len % BlockSize = 0 /\ offset % BlockSize = 0
Refused(f, aligned, len, offset) ==
    f.enforced /\ ~DirectIoAccepts(aligned, len, offset)

\* UnixFileIO::open_or_create_file: OpenOptions read(true).write(write)
\* .create(create).open(path).
OpenOrCreateFile(h, path, write, create) ==
    /\ open_files[h] = <<>>
    /\ IF path \in DOMAIN files \/ create
       THEN /\ \E enforced \in BOOLEAN :
                  files' = IF path \in DOMAIN files THEN files
                           ELSE Insert(files, path,
                                       [bytes |-> <<>>, enforced |-> enforced])
            /\ open_files' = [open_files EXCEPT
                                 ![h] = <<[path |-> path, write |-> write]>>]
            /\ io' = IoResult("open", "Ok", 0, <<>>)
       ELSE /\ io' = IoResult("open", "NotFound", 0, <<>>)
            /\ UNCHANGED <<files, open_files>>
    /\ UNCHANGED outside_file_io

\* UnixFileIO::open_file and create_file.
OpenFile(h, path, write) == OpenOrCreateFile(h, path, write, FALSE)
CreateFile(h, path) == OpenOrCreateFile(h, path, TRUE, TRUE)

\* FileIO::open_file of src/src/storage/fileio/mod.rs as built for Linux:
\* OpenOptions custom_flags(O_SYNC | O_DIRECT).read(true).write(write)
\* .open(path); `create` is not passed on.
FileIOOpenFile(h, path, write, create) ==
    /\ open_files[h] = <<>>
    /\ IF path \in DOMAIN files
       THEN /\ open_files' = [open_files EXCEPT
                                 ![h] = <<[path |-> path, write |-> write]>>]
            /\ io' = IoResult("open_file", "Ok", 0, <<>>)
       ELSE /\ io' = IoResult("open_file", "NotFound", 0, <<>>)
            /\ UNCHANGED open_files
    /\ UNCHANGED files
    /\ UNCHANGED outside_file_io

\* drop(file)
DropFile(h) ==
    /\ open_files[h] # <<>>
    /\ open_files' = [open_files EXCEPT ![h] = <<>>]
    /\ UNCHANGED <<files, io>>
    /\ UNCHANGED outside_file_io

\* pwrite of all of buf at offset: the bytes of [offset, offset + len) are
\* those of buf, a gap after the old end of the file reads as zeros.
WriteAt_AtStart(bytes, buf, offset) ==
    [j \in 1..(IF Len(bytes) > Len(buf) THEN Len(bytes) ELSE Len(buf)) |->
        IF j <= Len(buf) THEN buf[j] ELSE bytes[j]]
WriteAt(bytes, buf, offset) ==
    [j \in 1..(IF Len(bytes) > offset + Len(buf) THEN Len(bytes)
               ELSE offset + Len(buf)) |->
        IF j > offset /\ j <= offset + Len(buf) THEN buf[j - offset]
        ELSE IF j <= Len(bytes) THEN bytes[j]
        ELSE 0]

\* File::write_all_at through `file` on the file f: nothing is done for an
\* empty buffer; a file opened without write access refuses, and so does a
\* file system that enforces direct I/O for a transfer it does not accept.
write_all_at(file, f, buf, offset, aligned) ==
    IF buf = <<>> THEN [kind |-> "Ok", bytes |-> f.bytes]
    ELSE IF ~file.write THEN [kind |-> "Uncategorized", bytes |-> f.bytes]
    ELSE IF Refused(f, aligned, Len(buf), offset)
    THEN [kind |-> "InvalidInput", bytes |-> f.bytes]
    ELSE [kind |-> "Ok", bytes |-> WriteAt(f.bytes, buf, offset)]

\* UnixFileIO::write
FileWrite(h, buf, offset, aligned) ==
    /\ open_files[h] # <<>>
    /\ offset + Len(buf) <= MaxFileLen
    /\ LET file == open_files[h][1]
           w == write_all_at(file, files[file.path], buf, offset, aligned)
       IN /\ files' = [files EXCEPT ![file.path].bytes = w.bytes]
          /\ io' = IoResult("write", w.kind, offset, buf)
    /\ UNCHANGED open_files
    /\ UNCHANGED outside_file_io

\* The loop of File::read_exact_at: pread until the buffer is full; a pread
\* that returns 0 ends it with UnexpectedEof, the buffer filled with the bytes
\* the file had from `offset`.
read_loop_Partial(bytes, len, offset) ==
    LET n == IF Len(bytes) - offset < len THEN Len(bytes) - offset ELSE len
    IN [kind |-> "Ok", data |-> SubSeq(bytes, offset + 1, offset + n)]
read_loop(bytes, len, offset) ==
    LET n == IF Len(bytes) - offset < len THEN Len(bytes) - offset ELSE len
    IN [kind |-> IF n = len THEN "Ok" ELSE "UnexpectedEof",
        data |-> SubSeq(bytes, offset + 1, offset + n)]

\* File::read_exact_at on the file f: nothing is done for an empty buffer; at
\* or after the end of the file the first pread returns 0; otherwise a file
\* system that enforces direct I/O refuses a transfer it does not accept.
read_exact_at(f, len, offset, aligned) ==
    IF len = 0 THEN [kind |-> "Ok", data |-> <<>>]
    ELSE IF offset >= Len(f.bytes) THEN [kind |-> "UnexpectedEof", data |-> <<>>]
    ELSE IF Refused(f, aligned, len, offset)
    THEN [kind |-> "InvalidInput", data |-> <<>>]
    ELSE read_loop(f.bytes, len, offset)

\* UnixFileIO::read
FileRead(h, len, offset, aligned) ==
    /\ open_files[h] # <<>>
    /\ LET r == read_exact_at(files[open_files[h][1].path], len, offset, aligned)
       IN io' = IoResult("read", r.kind, offset, r.data)
    /\ UNCHANGED <<files, open_files>>
    /\ UNCHANGED outside_file_io

FileIoNext ==
    \E h \in FileSlots :
       \/ \E path \in Paths :
             \/ CreateFile(h, path)
             \/ \E write \in BOOLEAN : OpenFile(h, path, write)
             \/ \E write, create \in BOOLEAN :
                   FileIOOpenFile(h, path, write, create)
       \/ DropFile(h)
       \/ \E offset \in FileOffsets, aligned \in BOOLEAN :
             \/ \E buf \in WriteBufs : FileWrite(h, buf, offset, aligned)
             \/ \E len \in 0..MaxFileLen : FileRead(h, len, offset, aligned)

FileIoSpec == Init /\ [][FileIoNext]_vars

\* ------------------------------------------------------------ properties

GetPcs == {"get_item_lock", "get_frame_lock", "get_metadata_lock", "get_return"}
MutatePcs == {"mutate_item_lock", "mutate_frame_lock", "mutate_wait_readers",
              "mutate_copy", "mutate_metadata_lock", "mutate_return"}
Quiet(t) == pc[t] \in {"idle", "panicked"}

\* Thread t has the exclusive access of mutate_page to frame i.
Writing(t, i) ==
    /\ pc[t] \in {"mutate_copy", "mutate_metadata_lock", "mutate_return"}
    /\ buffer_id[t] = i
\* Thread t is inside get_page with the read lock of frame i.
Reading(t, i) ==
    /\ pc[t] \in {"get_metadata_lock", "get_return"}
    /\ buffer_id[t] = i
\* The guards on frame i, as (owner, position) pairs.
GuardsOn(i) ==
    {tn \in Threads \X (1..MaxCalls) :
        tn[2] <= Len(guards[tn[1]]) /\ guards[tn[1]][tn[2]].index = i}

\* C1: while a mutate_page has exclusive access to the frame of a key, no other
\* mutate_page has it, no get_page is reading the frame and no read guard on the
\* key is outstanding; and every outstanding guard still shows the bytes it
\* showed when it was made.
C1_WriterExcludesAll ==
    /\ \A t \in Threads : \A i \in OccupiedFrames :
          Writing(t, i) =>
             /\ \A u \in Threads \ {t} : ~Writing(u, i) /\ ~Reading(u, i)
             /\ GuardsOn(i) = {}
    /\ \A t \in Threads : \A n \in 1..Len(guards[t]) :
          Slice(frame_buffer, get_frame_range(guards[t][n].index, 0))
             = guards[t][n].seen

\* A writer has changed the bytes of a frame and still holds it, while another
\* thread waits for that frame's lock.
C1_Witness ==
    \E t, u \in Threads :
       /\ t # u
       /\ pc[t] = "mutate_metadata_lock"
       /\ Slice(frame_buffer, get_frame_range(buffer_id[t], 0))
             # Fill(PageSize, DefaultByte)
       /\ pc[u] \in {"get_frame_lock", "mutate_frame_lock"}
       /\ buffer_id[u] = buffer_id[t]

\* A mutate_page on frame i has taken WRITER_BIT of the frame lock.
WriterAt(i) ==
    \E u \in Threads :
       /\ pc[u] \in {"mutate_wait_readers", "mutate_copy", "mutate_metadata_lock",
                     "mutate_return"}
       /\ buffer_id[u] = i

\* C2: a get_page never waits for read guards: its two read locks can be taken
\* whenever no mutate_page has reached the frame's write lock, however many
\* guards are outstanding, and the metadata mutex is only ever held by a call
\* in its metadata update, never by a guard.
C2_ReadersShare ==
    \A t \in Threads :
       /\ pc[t] = "get_item_lock" => CanLockShared(item_lock[Slot(t)])
       /\ (pc[t] = "get_frame_lock" /\ ~WriterAt(buffer_id[t]))
             => CanLockShared(frame_lock[Slot(t)])
       /\ (pc[t] = "get_metadata_lock" /\ metadata_lock[Slot(t)] # NoThread)
             => pc[metadata_lock[Slot(t)]] \in {"get_return", "mutate_return"}

\* A thread owns a guard on a key while a get_page of another thread on that key
\* is about to take the frame's read lock.
C2_Witness ==
    \E t, u \in Threads :
       /\ t # u
       /\ pc[t] = "get_frame_lock"
       /\ ~WriterAt(buffer_id[t])
       /\ GuardsOn(buffer_id[t]) # {}
       /\ \E tn \in GuardsOn(buffer_id[t]) : tn[1] = u

\* Thread u uses key (frame) i: it is inside a call on it or owns a guard on it.
Uses(u, i) ==
    \/ pc[u] \in (GetPcs \cup MutatePcs) /\ buffer_id[u] = i
    \/ \E tn \in GuardsOn(i) : tn[1] = u

\* The lock step thread t is at can be taken.
CanAdvance(t) ==
    CASE pc[t] \in {"get_item_lock", "mutate_item_lock"}
            -> CanLockShared(item_lock[Slot(t)])
      [] pc[t] = "get_frame_lock" -> CanLockShared(frame_lock[Slot(t)])
      [] pc[t] = "mutate_frame_lock" -> CanSetWriterBit(frame_lock[Slot(t)])
      [] pc[t] = "mutate_wait_readers" -> ReadersDrained(frame_lock[Slot(t)])
      [] pc[t] \in {"get_metadata_lock", "mutate_metadata_lock"}
            -> metadata_lock[Slot(t)] = NoThread
      [] OTHER -> TRUE

Blocked(t) == ~Quiet(t) /\ ~CanAdvance(t)

\* C3: a get_page or mutate_page on key B is never kept waiting by what happens
\* on other keys: when no other thread uses B (and the caller owns no guard on
\* B), every lock step of the call can be taken, whatever guards are held and
\* whatever calls are blocked or in progress on other keys.
C3_OtherKeysDoNotBlock ==
    \A t \in Threads :
       (/\ ~Quiet(t)
        /\ \A u \in Threads \ {t} : ~Uses(u, buffer_id[t])
        /\ \A tn \in GuardsOn(buffer_id[t]) : tn[1] # t)
       => CanAdvance(t)

\* A mutate_page on key A is blocked behind a guard on A while a call on
\* another key B, which nobody else uses, is at its frame lock.
C3_Witness ==
    \E t, u \in Threads :
       /\ t # u
       /\ pc[u] = "mutate_wait_readers" /\ Blocked(u)
       /\ pc[t] \in {"get_frame_lock", "mutate_wait_readers"}
       /\ buffer_id[t] # buffer_id[u]
       /\ ~Uses(u, buffer_id[t])

\* C4 (as stated): deadlock freedom even when threads issue calls while they own
\* read guards: no reachable state has every thread blocked on a lock.
C4_NeverAllBlocked == ~(\A t \in Threads : Blocked(t))

\* C4 (amended): in every fair run in which no thread issues a call while it
\* owns a read guard, every call eventually returns (or panics).
C4_CallsReturnWithoutNesting ==
    ([]~nested) => (\A t \in Threads : (~Quiet(t)) ~> Quiet(t))

\* A call is blocked on a lock in a run without nested calls so far.
C4_Witness == ~nested /\ (\E t \in Threads : Blocked(t))

LockOrder == <<"map", "item", "frame", "metadata">>
IsPrefix(s, r) == Len(s) <= Len(r) /\ \A j \in 1..Len(s) : s[j] = r[j]

\* C5 (as stated): within a call, neither the map entry (1) nor the metadata
\* lock (2) is acquired after the frame lock (3).
C5_NothingAfterFrameLock ==
    \A t \in Threads : \A i, j \in 1..Len(held[t]) :
       (i < j /\ held[t][i] = "frame") => held[t][j] \notin {"map", "metadata"}

\* C5 (amended): within a call the locks are taken in the order map entry,
\* page-table item lock, frame lock, metadata mutex: the map entry and the item
\* lock are never acquired while the frame lock is held, and the metadata mutex
\* is acquired last, while the frame lock is held.
C5_LockOrderOfTheCode == \A t \in Threads : IsPrefix(held[t], LockOrder)

\* Both a get_page and a mutate_page hold all four locks.
C5_Witness ==
    \E t, u \in Threads :
       /\ pc[t] = "get_return" /\ held[t] = LockOrder
       /\ pc[u] = "mutate_return" /\ held[u] = LockOrder

\* C6: get_page of a key that is not resident returns NotResident and leaves
\* the map, the metadata, the frame bytes and the locks as they were.
C6_MissReturnsNotResident ==
    [][\A t \in Threads : \A id \in Keys :
          (id \notin DOMAIN buffer_map /\ GetPageCall(t, id))
             => (result'[t] = "NotResident" /\ pool' = pool)]_vars

\* C7: once load_page(key, bytes) with bytes.len() = page_size has been called,
\* it has succeeded, the key is resident and its frame holds exactly bytes.
C7_LoadMakesResident ==
    [][\A t \in Threads : \A id \in Keys : \A data \in Datas :
          (Len(data) = PageSize /\ LoadPageCall(t, id, data))
             => /\ result'[t] = "Ok"
                /\ id \in DOMAIN buffer_map'
                /\ Slice(frame_buffer', get_frame_range(buffer_map'[id], 0)) = data]_vars

\* C8: when mutate_page(key, offset, data) returns, the page a get_page of the
\* key shows holds data at offset .. offset + data.len(), and the entry is dirty.
C8_MutateWritesAndDirties ==
    [][\A t \in Threads :
          MutateReturn(t) =>
             LET page == Slice(frame_buffer', get_frame_range(buffer_id[t], 0)) IN
             /\ SubSeq(page, op[t].offset + 1, op[t].offset + Len(op[t].data))
                   = op[t].data
             /\ get_is_dirty(metadata'[Slot(t)].flags)]_vars

\* A mutate_page has returned, its key's frame holds the written page, and the
\* entry is dirty.
C8_Witness ==
    \E t \in Threads :
       /\ result[t] = "Ok" /\ op[t].name = "mutate_page" /\ pc[t] = "idle"
       /\ Slice(frame_buffer, get_frame_range(buffer_map[op[t].id], 0))
             = Fill(PageSize, MaxByte)
       /\ get_is_dirty(metadata[LockSlot(buffer_map[op[t].id])].flags)

\* C9: every mutate_page on a resident key with offset + data.len() <= page_size
\* succeeds: it panics neither on entry nor in the copy.
C9_InRangeSucceeds ==
    [][\A t \in Threads :
          /\ \A id \in DOMAIN buffer_map : \A offset \in FileOffsets : \A data \in Datas :
                (offset + Len(data) <= PageSize /\ MutatePageCall(t, id, offset, data))
                   => pc'[t] # "panicked"
          /\ MutateCopy(t) => pc'[t] # "panicked"]_vars

\* C10: mutate_page with offset + data.len() > page_size fails with OutOfRange
\* (the range assertion) and leaves the frame bytes and the metadata unchanged.
C10_OutOfRangeFails ==
    [][\A t \in Threads : \A id \in Keys : \A offset \in FileOffsets : \A data \in Datas :
          (offset + Len(data) > PageSize /\ MutatePageCall(t, id, offset, data))
             => /\ result'[t] = "PanicAssertInRange"
                /\ frame_buffer' = frame_buffer
                /\ metadata' = metadata]_vars

\* The metadata of the entry of a resident key.
MetadataOf(md, id) == md[LockSlot(buffer_map[id])]

\* C11: pinning is a reference count: set_pinned(key, true) succeeds and adds one
\* to pin_count, set_pinned(key, false) succeeds and takes one off when pin_count
\* is positive, and fails with Underflow, leaving pin_count at 0, when it is 0.
C11_PinIsReferenceCount ==
    [][\A t \in Threads : \A id \in DOMAIN buffer_map : \A pinned \in BOOLEAN :
          SetPagePinnedStateCall(t, id, pinned) =>
             LET before == MetadataOf(metadata, id).pin_count
                 after == MetadataOf(metadata', id).pin_count
             IN IF pinned THEN result'[t] = "Ok" /\ after = before + 1
                ELSE IF before = 0 THEN result'[t] = "Underflow" /\ after = 0
                ELSE result'[t] = "Ok" /\ after = before - 1]_vars

\* C13: load_page of a key that is not resident succeeds and makes it resident;
\* when the pool is full it evicts exactly one entry, the unpinned one with the
\* lowest access_count (ties: the lowest frame index), and the other entries
\* stay; when a frame is free nothing is evicted.
C13_FullPoolLoadEvictsOne ==
    [][\A t \in Threads : \A id \in Keys \ DOMAIN buffer_map : \A data \in Datas :
          (Len(data) = PageSize /\ LoadPageCall(t, id, data)) =>
             LET resident == DOMAIN buffer_map
                 unpinned == {k \in resident : MetadataOf(metadata, k).pin_count = 0}
                 count(k) == MetadataOf(metadata, k).access_count
                 lowest(k) == \A j \in unpinned \ {k} :
                                 \/ count(k) < count(j)
                                 \/ count(k) = count(j) /\ buffer_map[k] < buffer_map[j]
             IN /\ result'[t] = "Ok"
                /\ IF Cardinality(resident) = EntriesCount
                   THEN \E v \in unpinned :
                           /\ lowest(v)
                           /\ DOMAIN buffer_map' = (resident \ {v}) \cup {id}
                   ELSE DOMAIN buffer_map' = resident \cup {id}]_vars

\* C14: load_page of a key that is not resident never panics: it fails with
\* PoolExhausted, changing nothing, when the pool is full and every entry is
\* pinned, and it succeeds as soon as some entry is unpinned or a frame is free.
C14_FullyPinnedPoolIsExhausted ==
    [][\A t \in Threads : \A id \in Keys \ DOMAIN buffer_map : \A data \in Datas :
          (Len(data) = PageSize /\ LoadPageCall(t, id, data)) =>
             LET resident == DOMAIN buffer_map
                 pinned == {k \in resident : MetadataOf(metadata, k).pin_count > 0}
             IN IF Cardinality(resident) = EntriesCount /\ pinned = resident
                THEN result'[t] = "PoolExhausted" /\ pool' = pool
                ELSE result'[t] = "Ok" /\ id \in DOMAIN buffer_map']_vars

\* C15: load_page(key, bytes) succeeds, and every dirty entry that a load evicts
\* has been written back: the StorageHandler holds the bytes its frame had, so
\* that loading the page again from the StorageHandler yields the bytes last
\* written.
C15_DirtyEvictionWritesBack ==
    [][\A t \in Threads : \A id \in Keys : \A data \in Datas :
          (Len(data) = PageSize /\ LoadPageCall(t, id, data)) =>
             /\ result'[t] = "Ok"
             /\ \A k \in DOMAIN buffer_map \ DOMAIN buffer_map' :
                   get_is_dirty(MetadataOf(metadata, k).flags) =>
                      disk'[k] = Slice(frame_buffer, get_frame_range(buffer_map[k], 0))]_vars

\* C16: create_buffer_pool for a table id that already has a pool fails with
\* CreateConflict and leaves the registered pool as it was: the same instance,
\* which the handles obtained before and after the call refer to.
C16_CreateExistingConflicts ==
    [][\A t \in Threads :
          (CreateBufferPoolInsert(t) /\ op[t].table_id \in DOMAIN pools)
             => (result'[t] = "CreateConflict" /\ pools' = pools)]_vars

\* C17: get_buffer_pool for a table id without a pool returns the recoverable
\* outcome NotFound to its caller and leaves the pool map as it was and usable.
C17_GetAbsentIsNotFound ==
    [][\A t \in Threads :
          (GetBufferPoolReturn(t) /\ op[t].table_id \notin DOMAIN pools)
             => /\ result'[t] = "NotFound" /\ pc'[t] = "idle"
                /\ pools' = pools /\ ~poisoned']_vars

C19_SizesResolvedIndependently ==
    [][\A t \in Threads :
          (CreateBufferPoolInsert(t) /\ pc'[t] = "idle") =>
             LET p == pools'[op[t].table_id]
                 page_size == op[t].page_size_arg
                 entries_count == op[t].entries_count_arg
             IN /\ page_size # <<>> => p.page_size = page_size[1]
                /\ page_size = <<>> => p.page_size = default_page_size
                /\ entries_count # <<>> => p.entries_count = entries_count[1]
                /\ entries_count = <<>> => p.entries_count = default_entries_count]_vars

\* One registered pool has a given page_size and the default entries_count,
\* another the default page_size and a given entries_count.
C19_Witness ==
    \E a, b \in DOMAIN pools :
       /\ pools[a].page_size # default_page_size
       /\ pools[a].entries_count = default_entries_count
       /\ pools[b].page_size = default_page_size
       /\ pools[b].entries_count # default_entries_count

\* C20: remove never deletes an entry that a handle refers to: an entry leaves
\* the table only in a step before which its reference count is 0 and no handle
\* on it is alive, and from the check of the count to the deletion the count
\* stays 0 and no get_read obtains a handle on the key.
C20_RemoveOnlyUnreferenced ==
    /\ [](\A t \in Threads :
            pc[t] = "remove_upgrade" =>
               /\ op[t].id \in DOMAIN ref_table /\ ref_table[op[t].id] = 0
               /\ HandlesOn(op[t].id) = {})
    /\ [][\A id \in Keys :
            (id \in table /\ id \notin table') =>
               /\ id \in DOMAIN ref_table /\ ref_table[id] = 0
               /\ HandlesOn(id) = {}]_vars

\* A remove has found the count of its key to be 0 and is about to delete the
\* entry, while a get_read of another thread on the same key waits for the lock.
C20_Witness ==
    \E t, u \in Threads :
       /\ pc[t] = "remove_upgrade"
       /\ pc[u] = "get_read_lock" /\ op[u].id = op[t].id

\* C21: remove waits only while holders exist: a remove that waits for the lock
\* of ref_table while no handle on its key is alive waits for a thread that is
\* still inside its call and will unlock, never for a lock that its owner left
\* locked; and between two rounds of its polling loop a remove holds no lock, so
\* that the holders can drop their handles.
C21_RemoveWaitsOnlyForHolders ==
    \A t \in Threads :
       /\ (/\ pc[t] = "remove_lock"
           /\ HandlesOn(op[t].id) = {}
           /\ ~RefTableLockFree)
          => \E u \in Threads :
                /\ u \in {ref_table_lock.writer, ref_table_lock.upgradable}
                /\ pc[u] \in {"remove_check", "remove_upgrade"}
       /\ pc[t] \in {"remove_lock", "remove_sleep"}
          => t \notin {ref_table_lock.writer, ref_table_lock.upgradable}

\* C22: remove of a key that has an entry and no live handle, whether or not a
\* handle on it was ever taken, goes on to delete it without another round, and
\* when it returns the key is neither in the table nor in ref_table.
C22_RemoveUnreferencedCompletes ==
    [][\A t \in Threads :
          /\ (RemoveCheck(t) /\ op[t].id \in table /\ HandlesOn(op[t].id) = {})
                => pc'[t] = "remove_upgrade"
          /\ RemoveUpgrade(t)
                => /\ result'[t] = "Ok"
                   /\ op[t].id \notin table'
                   /\ op[t].id \notin DOMAIN ref_table']_vars

\* C23: access_count counts the accesses without loss: in every step the count
\* of an entry grows by one when a get_page or a mutate_page on its key returns
\* successfully in that step, and is unchanged otherwise; so it never decreases
\* and n + m successful calls add exactly n + m.
C23_AccessCountCountsCalls ==
    [][\A i \in OccupiedFrames :
          LET returns == {t \in Threads :
                            /\ pc[t] \in {"get_return", "mutate_return"}
                            /\ pc'[t] = "idle"
                            /\ buffer_id[t] = i}
          IN metadata'[LockSlot(i)].access_count
                = metadata[LockSlot(i)].access_count + Cardinality(returns)]_vars

\* A get_page and a mutate_page of different threads on one key have returned,
\* and the key has been accessed at least three times.
C23_Witness ==
    \E t, u \in Threads :
       /\ pc[t] = "idle" /\ result[t] = "Guard"
       /\ pc[u] = "idle" /\ result[u] = "Ok" /\ op[u].name = "mutate_page"
       /\ op[t].id = op[u].id
       /\ MetadataOf(metadata, op[t].id).access_count >= 3

\* C24: a read guard owns one read lock of its frame and one of its page-table
\* item, and its drop gives back exactly these: the readers of a frame lock are
\* its guards and the get_page calls past it, the readers of an item lock are
\* the guards and the calls past it; so once the guards on a key are dropped and
\* no other call is on the key, both locks are unheld and a mutate_page takes
\* the frame lock without waiting.
C24_DropReleasesBothLocks ==
    /\ \A i \in OccupiedFrames :
          LET pastFrame == {t \in Threads : Reading(t, i)}
              pastItem == {t \in Threads :
                             /\ pc[t] \in (GetPcs \cup MutatePcs)
                                          \ {"get_item_lock", "mutate_item_lock"}
                             /\ buffer_id[t] = i}
          IN /\ frame_lock[LockSlot(i)].readers
                   = Cardinality(GuardsOn(i)) + Cardinality(pastFrame)
             /\ item_lock[LockSlot(i)].readers
                   = Cardinality(GuardsOn(i)) + Cardinality(pastItem)
    /\ \A t \in Threads :
          (/\ pc[t] \in {"mutate_frame_lock", "mutate_wait_readers"}
           /\ GuardsOn(buffer_id[t]) = {}
           /\ \A u \in Threads \ {t} : ~Uses(u, buffer_id[t]))
          => /\ frame_lock[Slot(t)].readers = 0
             /\ item_lock[Slot(t)].readers = 1
             /\ CanAdvance(t)

\* A thread has dropped the guard it got on a key, and a mutate_page of another
\* thread has then taken the frame of that key exclusively.
C24_Witness ==
    \E t, u \in Threads :
       /\ t # u
       /\ pc[t] = "idle" /\ result[t] = "Guard" /\ guards[t] = <<>>
       /\ pc[u] = "mutate_copy" /\ buffer_id[u] = buffer_map[op[t].id]
       /\ GuardsOn(buffer_id[u]) = {}

\* C25: the resident keys and the occupied frames are in bijection: no two
\* entries of the page table name the same frame, and every frame marked
\* occupied is named by exactly one entry.
C25_KeysAndFramesInBijection ==
    /\ \A k1, k2 \in DOMAIN item_table :
          item_table[k1].frame_buffer_index = item_table[k2].frame_buffer_index
             => k1 = k2
    /\ \A i \in FrameIndexes :
          occupied[i]
             => Cardinality({k \in DOMAIN item_table :
                                item_table[k].frame_buffer_index = i}) = 1

\* C26: the entry that insert(key, frame_index) has just put into the page
\* table has no reference (count 0), is clean and names the given frame.
C26_InsertedEntryIsUnreferenced ==
    [][\A page_id \in PageIds, i \in FrameIndexes :
          PageTableInsert(page_id, i)
             => /\ page_id \in DOMAIN item_table'
                /\ item_table'[page_id].frame_buffer_index = i
                /\ item_table'[page_id].state = "Clean"
                /\ ~item_table'[page_id].pinned
                /\ item_table'[page_id].ref_count = 0]_vars

\* C27: find_first_free_index returns the lowest index whose frame is not
\* occupied when there is one, and None exactly when every frame is occupied.
C27_FindsLowestFreeFrame ==
    [][FindFirstFreeIndex =>
          LET free == {i \in FrameIndexes : ~occupied[i]}
              found == frame_result'.found
          IN /\ (free = {}) <=> (found = <<>>)
             /\ free # {} => /\ Len(found) = 1
                             /\ found[1] \in free
                             /\ \A j \in free : found[1] <= j]_vars

\* find_first_free_index has answered None on a full buffer, and has answered
\* a frame that has occupied frames below it.
C27_Witness ==
    /\ frame_result.call = "find_first_free_index"
    /\ \/ frame_result.found = <<>> /\ \A i \in FrameIndexes : occupied[i]
       \/ /\ frame_result.found # <<>>
          /\ frame_result.found[1] > 0
          /\ ~occupied[frame_result.found[1]]

\* C28: after safe_load_page(i, data) of one page, get_page_data(i) is data;
\* after clear_page(i), get_page_data(i) is None and find_first_free_index
\* answers i or a lower free frame; both leave the mark and the bytes of every
\* other frame as they were.
C28_LoadThenReadThenClear ==
    [][\A i \in FrameIndexes :
          LET others_kept ==
                 \A j \in FrameIndexes \ {i} :
                    /\ occupied'[j] = occupied[j]
                    /\ \A b \in index(j)..(index(j + 1) - 1) :
                          buffer'[b] = buffer[b]
          IN /\ \A data \in PageDatas \cup ShortDatas :
                   SafeLoadPage(i, data)
                      => /\ others_kept
                         /\ ~frame_result'.panicked
                               => get_page_data(occupied', buffer', i) = <<data>>
             /\ ClearPage(i)
                   => /\ others_kept
                      /\ get_page_data(occupied', buffer', i) = <<>>
                      /\ find_first_free_index(occupied') # <<>>
                      /\ find_first_free_index(occupied')[1] <= i]_vars

\* A page with a byte other than the default has been loaded into a frame
\* above frame 0 and read back, while another frame was occupied too.
C28_Witness ==
    \E i \in FrameIndexes \ {0} :
       /\ frame_result.call = "get_page_data"
       /\ frame_result.data = get_page_data(occupied, buffer, i)
       /\ frame_result.data # <<>>
       /\ \E j \in 1..PageSize : frame_result.data[1][j] # DefaultByte
       /\ occupied[0]

C31_OpenFindsOrCreates ==
    [][\A h \in FileSlots, path \in Paths :
          /\ \A write \in BOOLEAN :
                (OpenFile(h, path, write) \/ FileIOOpenFile(h, path, write, FALSE))
                   => IF path \in DOMAIN files
                      THEN io'.kind = "Ok" /\ open_files'[h] # <<>>
                      ELSE /\ io'.kind = "NotFound"
                           /\ files' = files
                           /\ open_files'[h] = <<>>
          /\ (CreateFile(h, path) \/ FileIOOpenFile(h, path, TRUE, TRUE))
                => /\ io'.kind = "Ok"
                   /\ path \in DOMAIN files'
                   /\ open_files'[h] # <<>>]_vars

\* C32: a mutate_page(key, offset, data) that succeeds changes only the bytes
\* [offset, offset + len) of the frame of key: every change of a byte of the
\* frame buffer is the copy of such a call and lies in that range, the map from
\* keys to frames never changes, and the steps of a mutate_page leave the
\* metadata of every other entry as it was.
C32_MutateChangesOnlyItsRange ==
    [][/\ buffer_map' = buffer_map
       /\ \A b \in DOMAIN frame_buffer :
             frame_buffer'[b] # frame_buffer[b]
                => \E t \in Threads :
                      /\ pc[t] = "mutate_copy"
                      /\ pc'[t] = "mutate_metadata_lock"
                      /\ b >= PageSize * buffer_map[op[t].id] + op[t].offset
                      /\ b < PageSize * buffer_map[op[t].id] + op[t].offset
                                + Len(op[t].data)
       /\ \A t \in Threads :
             (pc[t] \in MutatePcs /\ pc'[t] # pc[t])
                => \A i \in OccupiedFrames \ {buffer_map[op[t].id]} :
                      metadata'[LockSlot(i)] = metadata[LockSlot(i)]]_vars

\* A mutate_page on the key of frame 1 has returned with its bytes in that
\* frame, and the bytes of frame 0 are the ones the pool started with.
C32_Witness ==
    \E t \in Threads :
       /\ pc[t] = "idle" /\ result[t] = "Ok" /\ op[t].name = "mutate_page"
       /\ buffer_map[op[t].id] = 1
       /\ \E b \in PageSize..(2 * PageSize - 1) : frame_buffer[b] # DefaultByte
       /\ \A b \in 0..(PageSize - 1) : frame_buffer[b] = DefaultByte

\* C33: a get_page or mutate_page that has failed holds no lock: every read
\* lock of an item or of a frame is the one of a live guard or of a call still
\* running, the writer of a frame lock and the owner of a metadata lock are
\* calls still running, and the map is referenced only by running calls.
C33_FailedCallHoldsNoLock ==
    LET running(t) == pc[t] \in (GetPcs \cup MutatePcs)
        pastItem(i) == {t \in Threads :
                          /\ running(t)
                          /\ pc[t] \notin {"get_item_lock", "mutate_item_lock"}
                          /\ buffer_id[t] = i}
    IN /\ map_refs = Cardinality({t \in Threads : running(t)})
       /\ \A i \in DOMAIN item_lock :
             item_lock[i].readers
                = Cardinality(GuardsOn(i)) + Cardinality(pastItem(i))
       /\ \A i \in DOMAIN frame_lock :
             /\ frame_lock[i].readers
                   = Cardinality(GuardsOn(i))
                     + Cardinality({t \in Threads : Reading(t, i)})
             /\ frame_lock[i].writer # NoThread
                   => running(frame_lock[i].writer)
             /\ metadata_lock[i] # NoThread => running(metadata_lock[i])

\* C34: remove gives the lock of ref_table back on every way out: a thread
\* that is not inside remove (it never called it, or its call has returned or
\* has panicked) holds the lock neither as writer nor as upgradable reader.
C34_RemoveReleasesRefTableLock ==
    \A t \in Threads :
       pc[t] \notin {"remove_lock", "remove_check", "remove_sleep", "remove_upgrade"}
          => /\ ref_table_lock.writer # t
             /\ ref_table_lock.upgradable # t

\* C35: in every reachable state the count stored in ref_table for a key is
\* the number of live PageTableItemReadLock handles on that key (a key without
\* count has none), and every live handle finds its key in ref_table with a
\* count above 0, so that its drop neither unwraps None nor underflows.
C35_RefTableCountsLiveHandles ==
    /\ \A id \in DOMAIN ref_table : ref_table[id] = Cardinality(HandlesOn(id))
    /\ \A t \in Threads :
          \A n \in 1..Len(read_locks[t]) :
             /\ read_locks[t][n] \in DOMAIN ref_table
             /\ ref_table[read_locks[t][n]] > 0

\* C36: for every flags byte, set_is_dirty(v) followed by get_is_dirty() gives
\* v, and set_is_dirty changes no bit of the byte other than the IsDirty bit
\* (the bits above it, flags / 2, stay as they were).
C36_SetThenGetIsDirty ==
    [][\A i \in OccupiedFrames, value \in BOOLEAN :
          SetIsDirty(i, value)
             => /\ get_is_dirty(metadata'[LockSlot(i)].flags) = value
                /\ metadata'[LockSlot(i)].flags \div (2 * IsDirtyMask)
                      = metadata[LockSlot(i)].flags \div (2 * IsDirtyMask)]_vars

\* C37: a create_buffer_pool that fails on a resolved size of 0 leaves the pool
\* map as it was, and the calls after it go on as if it had not happened: each
\* contains_buffer_pool, get_buffer_pool and create_buffer_pool still gets the
\* lock of `pools` and reaches its body.
C37_FailedCreateIsForgotten ==
    [][\A t \in Threads :
          /\ (CreateBufferPoolInsert(t)
                /\ NewPanics(op[t].page_size, op[t].entries_count) # "ok")
                => pools' = pools
          /\ ContainsBufferPoolLock(t) => pc'[t] = "contains_return"
          /\ GetBufferPoolLock(t) => pc'[t] = "get_pool_return"
          /\ CreateBufferPoolLock(t) => pc'[t] = "create_insert"]_vars

\* C38: in every interleaving of create_buffer_pool, contains_buffer_pool and
\* get_buffer_pool, (a) lookups do not exclude each other: while no create is at
\* the lock of `pools` or under it, a lookup that asks for the lock gets it,
\* however many lookups hold it; (b) a lookup never sees a pool half inserted:
\* no lookup is under the lock while a create is, and a value it returns is a
\* whole pool as BufferPoolImpl::new built it; (c) the handle a caller holds
\* stays the pool it was given, whatever is done to the map: only the caller's
\* own get_buffer_pool replaces it.
C38_LookupsShareAndSeeWholePools ==
    [][LET lookup(t) == pc[t] \in {"contains_return", "get_pool_return"}
           creating(t) == pc[t] \in {"create_lock", "create_insert"}
           whole(p) == /\ p.page_size > 0 /\ p.entries_count > 0
                       /\ p = BufferPoolImplNew(p.page_size, p.entries_count, p.inst)
       IN /\ (\A t \in Threads : ~creating(t)) => CanLockShared(pools_lock)
          /\ \A t \in Threads :
                pc[t] = "create_insert"
                   => \A u \in Threads \ {t} : ~lookup(u) /\ pc[u] # "create_insert"
          /\ pools_lock.readers = Cardinality({t \in Threads : lookup(t)})
          /\ \A t \in Threads :
                /\ handle'[t] # <<>> => whole(handle'[t][1])
                /\ handle'[t] # handle[t]
                      => /\ pc[t] = "get_pool_return"
                         /\ op[t].table_id \in DOMAIN pools
                         /\ handle'[t] = <<pools[op[t].table_id]>>]_vars

\* Two get_buffer_pool calls are under the lock of `pools` together, one of
\* them by a caller that already holds a handle.
C38_Witness ==
    \E t \in Threads : \E u \in Threads \ {t} :
       /\ pc[t] = "get_pool_return" /\ pc[u] = "get_pool_return"
       /\ pools_lock.readers = NumThreads
       /\ handle[u] # <<>>
       /\ op[t].table_id \in DOMAIN pools

====
